---- MODULE Spec2Model ----
(***************************************************************************)
(* A model of equity-cli: the card model (card.rs), the hand classifier    *)
(* and the two orderings of PokerHandRank (poker_hand.rs), the combination *)
(* enumerator, best-hand selector and winner resolver (poker_utils.rs) and *)
(* the Monte Carlo driver run_out (main.rs).                               *)
(***************************************************************************)
EXTENDS Integers, Sequences, FiniteSets, TLC

VARIABLES
    pc,            \* position of the operation under way
    self_,         \* PokerHandRank: left operand of a comparison
    other,         \* PokerHandRank: right operand of a comparison
    ret,           \* value returned by the comparison that ran
    cards,         \* the [Card; 5] or [Card; 7] argument
    sorted,        \* cards_to_hand: the local array after sort + reverse
    hand,          \* PokerHandRank returned by cards_to_hand / get_best_hand
    combinations,  \* Vec<[Card; 5]> returned by get_combinations
    deck,          \* run_out argument: Vec<Card>
    hands,         \* run_out argument: Vec<[Card; 2]>
    community,     \* run_out argument: Vec<Card>, the known board
    iterations,    \* run_out argument: u32
    i,             \* run_out: loop counter
    wdeck,         \* run_out: the trial's clone of deck
    wcommunity,    \* run_out: the trial's clone of community
    draws,         \* run_out: cards popped from wdeck in the current trial
    wins,          \* run_out: Vec<f32> accumulator (see F32 below)
    idx,           \* run_out: winner indices of the last resolved trial
    best_hands,    \* determine_winner: every player's best hand, last trial
    result         \* run_out: the returned Vec<f32>

vars == <<pc, self_, other, ret, cards, sorted, hand, combinations, deck, hands,
          community, iterations, i, wdeck, wcommunity, draws, wins, idx,
          best_hands, result>>

(***************************************************************************)
(* card.rs: Rank, Suit, Card                                               *)
(***************************************************************************)
Two == 2
Three == 3
Four == 4
Five == 5
Six == 6
Seven == 7
Eight == 8
Nine == 9
Ten == 10
Jack == 11
Queen == 12
King == 13
Ace == 14

Rank == Two..Ace

Spades == 0
Hearts == 1
Clubs == 2
Diamonds == 3

Suit == Spades..Diamonds

Card == [rank : Rank, suit : Suit]

new(r, s) == [rank |-> r, suit |-> s]

\* Rank::value: the discriminant as u32
value(r) == r

\* Rank::next: the cyclic successor, Ace's next is Two
next(r) ==
    CASE r = Two -> Three
      [] r = Three -> Four
      [] r = Four -> Five
      [] r = Five -> Six
      [] r = Six -> Seven
      [] r = Seven -> Eight
      [] r = Eight -> Nine
      [] r = Nine -> Ten
      [] r = Ten -> Jack
      [] r = Jack -> Queen
      [] r = Queen -> King
      [] r = King -> Ace
      [] r = Ace -> Two

\* impl PartialEq for Rank
rank_eq(a, b) == value(a) = value(b)

\* u32::partial_cmp / i32::partial_cmp on the values
int_cmp(a, b) == IF a < b THEN "Less" ELSE IF a > b THEN "Greater" ELSE "Equal"

\* impl PartialOrd for Rank
rank_partial_cmp(a, b) == int_cmp(value(a), value(b))

\* #[derive(Ord)] on Rank: a fieldless enum compares by discriminant
rank_cmp(a, b) == int_cmp(a, b)

(***************************************************************************)
(* poker_hand.rs: PokerHandRank, a tagged value [cat, p] whose payload p   *)
(* is the tuple of ranks of the variant                                    *)
(***************************************************************************)
Categories ==
    <<"HighCard", "Pair", "TwoPair", "ThreeOfAKind", "Straight", "Flush",
      "FullHouse", "FourOfAKind", "StraightFlush">>

\* number of Rank fields of each variant
FieldCount(cat) ==
    CASE cat = "HighCard" -> 5
      [] cat = "Pair" -> 4
      [] cat = "TwoPair" -> 3
      [] cat = "ThreeOfAKind" -> 3
      [] cat = "Straight" -> 1
      [] cat = "Flush" -> 5
      [] cat = "FullHouse" -> 2
      [] cat = "FourOfAKind" -> 2
      [] cat = "StraightFlush" -> 1

PokerHandRank(cat, p) == [cat |-> cat, p |-> p]

\* position of the variant in the enum declaration, which #[derive(Ord)] compares first
VariantIndex(cat) == CHOOSE k \in 1..Len(Categories) : Categories[k] = cat

\* impl PartialEq for PokerHandRank: same variant and field-by-field equal ranks
eq(a, b) ==
    /\ a.cat = b.cat
    /\ \A k \in 1..FieldCount(a.cat) : rank_eq(a.p[k], b.p[k])

\* the field-by-field part of the derived Ord: the first unequal field decides
RECURSIVE fields_cmp(_, _, _)
fields_cmp(p, q, k) ==
    IF k > Len(p) THEN "Equal"
    ELSE IF rank_cmp(p[k], q[k]) # "Equal" THEN rank_cmp(p[k], q[k])
    ELSE fields_cmp(p, q, k + 1)

\* fn rank_to_value inside partial_cmp
rank_to_value(h) ==
    CASE h.cat = "HighCard" -> 1
      [] h.cat = "Pair" -> 2
      [] h.cat = "TwoPair" -> 3
      [] h.cat = "ThreeOfAKind" -> 4
      [] h.cat = "Straight" -> 5
      [] h.cat = "Flush" -> 6
      [] h.cat = "FullHouse" -> 7
      [] h.cat = "FourOfAKind" -> 8
      [] h.cat = "StraightFlush" -> 9

\* the loop of compare_ranks: sum += rank as i32 * multiplier; multiplier /= 15
RECURSIVE weighted_sum(_, _, _, _)
weighted_sum(list, k, multiplier, sum) ==
    IF k > Len(list) THEN sum
    ELSE weighted_sum(list, k + 1, multiplier \div 15, sum + list[k] * multiplier)

\* fn compare_ranks: both multipliers start at 15 * 5
compare_ranks(n_list, m_list) ==
    int_cmp(weighted_sum(n_list, 1, 15 * 5, 0), weighted_sum(m_list, 1, 15 * 5, 0))

\* impl PartialOrd for PokerHandRank
partial_cmp(a, b) ==
    IF rank_to_value(a) < rank_to_value(b) THEN "Less"
    ELSE IF rank_to_value(a) > rank_to_value(b) THEN "Greater"
    ELSE IF a.cat \in {"Straight", "StraightFlush"}
         THEN rank_partial_cmp(a.p[1], b.p[1])
    ELSE compare_ranks(a.p, b.p)

\* PartialOrd::lt, the comparison slice::sort_unstable calls
lt(a, b) == partial_cmp(a, b) = "Less"

\* a plausible slip: Ord written by hand as partial_cmp(..).unwrap()
cmp_by_partial_cmp(a, b) == partial_cmp(a, b)

\* #[derive(Ord)] on PokerHandRank: variant position, then the fields in order
cmp(a, b) ==
    IF VariantIndex(a.cat) # VariantIndex(b.cat)
    THEN int_cmp(VariantIndex(a.cat), VariantIndex(b.cat))
    ELSE fields_cmp(a.p, b.p, 1)

\* Iterator::max: max_by(Ord::cmp), which keeps the later of two equal elements
RECURSIVE max_from(_, _, _)
max_from(s, k, best) ==
    IF k > Len(s) THEN best
    ELSE max_from(s, k + 1, IF cmp(best, s[k]) = "Greater" THEN best ELSE s[k])

\* a plausible slip: min() written for max()
RECURSIVE min_from(_, _, _)
min_from(s, k, best) ==
    IF k > Len(s) THEN best
    ELSE min_from(s, k + 1, IF cmp(best, s[k]) = "Greater" THEN s[k] ELSE best)

min(s) == min_from(s, 2, s[1])

max(s) == max_from(s, 2, s[1])

(***************************************************************************)
(* poker_hand.rs: cards_to_hand                                            *)
(***************************************************************************)
Perms(n) == {f \in [1..n -> 1..n] : \A x, y \in 1..n : x # y => f[x] # f[y]}

Perms5 == Perms(5)

\* every array sort_unstable_by_key(rank) followed by reverse() may leave:
\* the same cards, ranks descending, cards of equal rank in any order
\* a plausible slip: the sort is left out and the tests run on the input order
sort_left_out(cs) == {cs}

RECURSIVE asc_orders(_, _)
asc_orders(cs, left) ==
    IF left = {} THEN {<<>>}
    ELSE UNION {{<<cs[k]>> \o t : t \in asc_orders(cs, left \ {k})} :
                    k \in {x \in left : \A j \in left : cs[x].rank <= cs[j].rank}}

\* a plausible slip: cards.reverse() is left out, the array stays ascending
sort_without_reverse(cs) == asc_orders(cs, 1..Len(cs))

RECURSIVE desc_orders(_, _)
desc_orders(cs, left) ==
    IF left = {} THEN {<<>>}
    ELSE UNION {{<<cs[k]>> \o t : t \in desc_orders(cs, left \ {k})} :
                    k \in {x \in left : \A j \in left : cs[x].rank >= cs[j].rank}}

sort_reverse_outcomes(cs) == desc_orders(cs, 1..Len(cs))

\* one of those outcomes, by selection: the highest remaining rank first
RECURSIVE select_desc(_, _)
select_desc(cs, left) ==
    IF left = {} THEN <<>>
    ELSE LET top == CHOOSE k \in left : \A j \in left : cs[k].rank >= cs[j].rank
         IN  <<cs[top]>> \o select_desc(cs, left \ {top})

sort_reverse(cs) == select_desc(cs, 1..Len(cs))

\* a plausible change: the chain also accepts the Ace above the Five
windows_all_next_or_wheel(c) ==
    \A k \in 1..4 :
        \/ rank_eq(next(c[k + 1].rank), c[k].rank)
        \/ (k = 1 /\ c[1].rank = Ace /\ c[2].rank = Five)

\* a plausible change: the array is read as a ring, the chain may start anywhere
windows_all_next_ring(c) ==
    \E start \in 0..4 :
        \A k \in 1..4 :
            rank_eq(next(c[((start + k) % 5) + 1].rank), c[((start + k - 1) % 5) + 1].rank)

\* cards.windows(2).all(|pair| pair[1].rank.next() == pair[0].rank)
windows_all_next(c) == \A k \in 1..4 : rank_eq(next(c[k + 1].rank), c[k].rank)

\* cards.iter().all(|card| card.suit == cards[0].suit)
all_same_suit(c) == \A k \in 1..5 : c[k].suit = c[1].suit

\* the chain of tests of cards_to_hand on the sorted, reversed array c
\* (c[1] is cards[0] of the source)
classify_sorted(c) ==
    LET r(k) == c[k].rank
        same(x, y) == rank_eq(r(x), r(y))
    IN
    IF windows_all_next(c) /\ all_same_suit(c)
        THEN PokerHandRank("StraightFlush", <<r(1)>>)
    ELSE IF same(1, 2) /\ same(2, 3) /\ same(3, 4)
        THEN PokerHandRank("FourOfAKind", <<r(1), r(5)>>)
    ELSE IF same(2, 3) /\ same(3, 4) /\ same(4, 5)
        THEN PokerHandRank("FourOfAKind", <<r(2), r(1)>>)
    ELSE IF same(1, 2) /\ same(2, 3) /\ same(4, 5)
        THEN PokerHandRank("FullHouse", <<r(1), r(4)>>)
    ELSE IF same(1, 2) /\ same(3, 4) /\ same(4, 5)
        THEN PokerHandRank("FullHouse", <<r(3), r(1)>>)
    ELSE IF all_same_suit(c)
        THEN PokerHandRank("Flush", <<r(1), r(2), r(3), r(4), r(5)>>)
    ELSE IF windows_all_next(c)
        THEN PokerHandRank("Straight", <<r(1)>>)
    ELSE IF same(1, 2) /\ same(2, 3)
        THEN PokerHandRank("ThreeOfAKind", <<r(1), r(4), r(5)>>)
    ELSE IF same(2, 3) /\ same(3, 4)
        THEN PokerHandRank("ThreeOfAKind", <<r(2), r(1), r(5)>>)
    ELSE IF same(3, 4) /\ same(4, 5)
        THEN PokerHandRank("ThreeOfAKind", <<r(3), r(1), r(2)>>)
    ELSE IF same(1, 2) /\ same(3, 4)
        THEN PokerHandRank("TwoPair", <<r(1), r(3), r(5)>>)
    ELSE IF same(1, 2) /\ same(4, 5)
        THEN PokerHandRank("TwoPair", <<r(1), r(4), r(3)>>)
    ELSE IF same(2, 3) /\ same(4, 5)
        THEN PokerHandRank("TwoPair", <<r(2), r(4), r(1)>>)
    ELSE IF same(1, 2)
        THEN PokerHandRank("Pair", <<r(1), r(3), r(4), r(5)>>)
    ELSE IF same(2, 3)
        THEN PokerHandRank("Pair", <<r(2), r(1), r(4), r(5)>>)
    ELSE IF same(3, 4)
        THEN PokerHandRank("Pair", <<r(3), r(1), r(2), r(5)>>)
    ELSE IF same(4, 5)
        THEN PokerHandRank("Pair", <<r(4), r(1), r(2), r(3)>>)
    ELSE PokerHandRank("HighCard", <<r(1), r(2), r(3), r(4), r(5)>>)

\* fn cards_to_hand
cards_to_hand(cs) == classify_sorted(sort_reverse(cs))

(***************************************************************************)
(* poker_utils.rs: get_combinations, get_best_hand, determine_winner       *)
(***************************************************************************)
\* the five nested loops: i in 0..3, j in i+1..4, k in j+1..5, l in k+1..6,
\* m in l+1..7, pushing in that order (indices here are the source's plus one)
IndexTuples ==
    {<<a, b, c, d, e>> : a \in 1..3, b \in 2..4, c \in 3..5, d \in 4..6, e \in 5..7}

\* a plausible slip: the outer loop stops one short (i in 0..2)
LoopTuplesShort == {t \in IndexTuples : t[1] < 3 /\ t[1] < t[2] /\ t[2] < t[3] /\ t[3] < t[4] /\ t[4] < t[5]}

LoopTuples == {t \in IndexTuples : t[1] < t[2] /\ t[2] < t[3] /\ t[3] < t[4] /\ t[4] < t[5]}

\* lexicographic order of the index tuples, the order in which the loops push
TupleBefore(s, t) ==
    \E k \in 1..5 : s[k] < t[k] /\ \A j \in 1..(k - 1) : s[j] = t[j]

RECURSIVE in_loop_order(_)
in_loop_order(ts) ==
    IF ts = {} THEN <<>>
    ELSE LET first == CHOOSE t \in ts : \A u \in ts \ {t} : TupleBefore(t, u)
         IN  <<first>> \o in_loop_order(ts \ {first})

LoopOrder == in_loop_order(LoopTuples)

\* fn get_combinations
get_combinations(cs) ==
    [n \in 1..Len(LoopOrder) |-> [k \in 1..5 |-> cs[LoopOrder[n][k]]]]

\* fn get_best_hand: classify every combination and take Iterator::max
best_of(combos) == max([n \in 1..Len(combos) |-> cards_to_hand(combos[n])])

get_best_hand(cs) == best_of(get_combinations(cs))

\* determine_winner: the seven cards handed to get_best_hand for one player
seven(h, board) == <<h[1], h[2], board[1], board[2], board[3], board[4], board[5]>>

\* determine_winner: best_hands
all_best_hands(hs, board) == [n \in 1..Len(hs) |-> get_best_hand(seven(hs[n], board))]

\* a plausible slip: position() in place of the filter, only the first winner
RECURSIVE first_winner_from(_, _, _)
first_winner_from(bh, w, k) ==
    IF k > Len(bh) THEN <<>>
    ELSE IF eq(bh[k], w) THEN <<k - 1>>
    ELSE first_winner_from(bh, w, k + 1)

\* determine_winner: the enumerate/filter_map collecting indices (0-based, ascending)
RECURSIVE winners_from(_, _, _)
winners_from(bh, w, k) ==
    IF k > Len(bh) THEN <<>>
    ELSE (IF eq(bh[k], w) THEN <<k - 1>> ELSE <<>>) \o winners_from(bh, w, k + 1)

\* fn determine_winner
\* determine_winner: winning_hand = best_hands.iter().max(), and the pair returned
winners_and_hands(bh) == <<winners_from(bh, max(bh), 1), bh>>

determine_winner(hs, board) == winners_and_hands(all_best_hands(hs, board))

(***************************************************************************)
(* main.rs: the f32 arithmetic of run_out.  A non-negative f32 is          *)
(* [m, e] with value m * 2^e, m = 0 or 2^23 <= m < 2^24 (24 significant    *)
(* bits); every operation rounds to nearest, ties to even.  m = -1 marks   *)
(* NaN and m = -2 +infinity, the two values a division by 0.0 gives.       *)
(***************************************************************************)
SignificandBits == 24

RECURSIVE Pow2(_)
Pow2(n) == IF n = 0 THEN 1 ELSE 2 * Pow2(n - 1)

RECURSIVE BitLen(_)
BitLen(n) == IF n = 0 THEN 0 ELSE 1 + BitLen(n \div 2)

F32Zero == [m |-> 0, e |-> 0]

\* 0.0 / 0.0
F32NaN == [m |-> 0 - 1, e |-> 0]

\* x / 0.0 for x > 0.0
F32Inf == [m |-> 0 - 2, e |-> 0]

\* s * 2^e rounded to 24 significant bits, for 0 < s < 2^30
F32Round(s, e) ==
    LET n == BitLen(s) - SignificandBits
    IN  IF n <= 0 THEN [m |-> s * Pow2(0 - n), e |-> e + n]
        ELSE LET q == s \div Pow2(n)
                 r == s % Pow2(n)
                 half == Pow2(n - 1)
                 up == r > half \/ (r = half /\ q % 2 = 1)
                 m == IF up THEN q + 1 ELSE q
             IN  IF m = Pow2(SignificandBits)
                 THEN [m |-> Pow2(SignificandBits - 1), e |-> e + n + 1]
                 ELSE [m |-> m, e |-> e + n]

\* `n as f32` for an integer 0 <= n < 2^30
F32FromInt(n) == IF n = 0 THEN F32Zero ELSE F32Round(n, 0)

\* x shifted right by d bits, the bits shifted out kept as one sticky bit
ShiftRightSticky(x, d) ==
    IF d >= 30 THEN 1
    ELSE (x \div Pow2(d)) + (IF x % Pow2(d) # 0 /\ (x \div Pow2(d)) % 2 = 0 THEN 1 ELSE 0)

\* a + b in f32: three more bits are kept below the larger operand's last bit
F32Add(a, b) ==
    IF a.m = 0 THEN b
    ELSE IF b.m = 0 THEN a
    ELSE LET hi == IF a.e >= b.e THEN a ELSE b
             lo == IF a.e >= b.e THEN b ELSE a
         IN  F32Round(hi.m * 8 + ShiftRightSticky(lo.m * 8, hi.e - lo.e), hi.e - 3)

\* the long division of a / b: `bits` more quotient bits from remainder r
RECURSIVE DivBits(_, _, _, _)
DivBits(q, r, d, bits) ==
    IF bits = 0 THEN <<q, r>>
    ELSE IF 2 * r >= d THEN DivBits(2 * q + 1, 2 * r - d, d, bits - 1)
    ELSE DivBits(2 * q, 2 * r, d, bits - 1)

\* a / b in f32 for finite a, b: 26 fraction bits of the quotient and a
\* sticky bit; a zero divisor gives NaN or infinity
F32Div(a, b) ==
    IF b.m = 0 THEN (IF a.m = 0 THEN F32NaN ELSE F32Inf)
    ELSE IF a.m = 0 THEN F32Zero
    ELSE LET qr == DivBits(a.m \div b.m, a.m % b.m, b.m, 26)
         IN  F32Round(2 * qr[1] + (IF qr[2] # 0 THEN 1 ELSE 0), a.e - b.e - 27)

\* a <= b for two f32 values: false when either is NaN
F32Le(a, b) ==
    IF a = F32NaN \/ b = F32NaN THEN FALSE
    ELSE IF b = F32Inf THEN TRUE
    ELSE IF a = F32Inf THEN FALSE
    ELSE IF a.m = 0 THEN TRUE
    ELSE IF b.m = 0 THEN FALSE
    ELSE a.e < b.e \/ (a.e = b.e /\ a.m <= b.m)

(***************************************************************************)
(* Inputs: a fixed ordering of cards of the deck whose prefixes bound the  *)
(* cards an operation is tried on                                          *)
(***************************************************************************)
Pool ==
    <<new(Ace, Spades), new(Two, Spades), new(Three, Spades), new(Four, Spades),
      new(Five, Spades), new(Six, Spades), new(Two, Hearts), new(Two, Clubs),
      new(Two, Diamonds), new(Three, Hearts), new(King, Spades), new(Ace, Hearts),
      new(Four, Hearts), new(King, Hearts), new(Five, Hearts), new(Six, Hearts),
      new(Queen, Spades), new(Three, Clubs), new(Ace, Clubs), new(King, Clubs),
      new(Queen, Hearts), new(Seven, Spades), new(Jack, Spades), new(Ten, Spades)>>

\* the strictly increasing k-tuples of indices in 1..n
RECURSIVE IncSeqs(_, _)
IncSeqs(n, k) ==
    IF k = 0 THEN {<<>>}
    ELSE UNION {{Append(s, x) : x \in (IF s = <<>> THEN 1 ELSE s[Len(s)] + 1)..n} :
                    s \in IncSeqs(n, k - 1)}

\* the k-card arrays taken in pool order from the first n cards of the pool
PoolArrays(n, k) == {[j \in 1..k |-> Pool[t[j]]] : t \in IncSeqs(n, k)}

OrdPoolSize == 10

\* the hands test_hand_order builds with the variant constructors
TestHands ==
    {PokerHandRank("HighCard", <<Ace, King, Queen, Jack, Ten>>),
     PokerHandRank("Pair", <<Ace, King, Four, Three>>),
     PokerHandRank("TwoPair", <<Ace, King, Queen>>),
     PokerHandRank("ThreeOfAKind", <<Ace, King, Queen>>),
     PokerHandRank("Straight", <<Ace>>),
     PokerHandRank("Flush", <<Ace, King, Queen, Jack, Ten>>),
     PokerHandRank("FullHouse", <<Ace, King>>),
     PokerHandRank("FourOfAKind", <<Ace, King>>),
     PokerHandRank("StraightFlush", <<Ace>>),
     PokerHandRank("HighCard", <<Ace, Queen, Jack, Ten, Nine>>),
     PokerHandRank("Pair", <<Ace, Queen, Four, Five>>),
     PokerHandRank("TwoPair", <<Ace, Queen, Jack>>),
     PokerHandRank("ThreeOfAKind", <<Ace, Queen, Two>>)}

\* the hands compared: every hand cards_to_hand makes of five pool cards, and the test's
OrdHands == {cards_to_hand(c) : c \in PoolArrays(OrdPoolSize, 5)} \cup TestHands

Unused == <<>>

HandIdle ==
    /\ cards = Unused /\ sorted = Unused /\ hand = Unused /\ combinations = Unused

RunIdle ==
    /\ deck = Unused /\ hands = Unused /\ community = Unused /\ iterations = 0
    /\ i = 0 /\ wdeck = Unused /\ wcommunity = Unused /\ draws = 0
    /\ wins = Unused /\ idx = Unused /\ best_hands = Unused /\ result = Unused

OrdIdle == self_ = Unused /\ other = Unused /\ ret = Unused

hand_vars == <<cards, sorted, hand, combinations>>

run_vars == <<deck, hands, community, iterations, i, wdeck, wcommunity, draws,
              wins, idx, best_hands, result>>

ord_vars == <<self_, other, ret>>

(***************************************************************************)
(* SpecOrd: the comparisons of two PokerHandRank values                    *)
(***************************************************************************)
InitOrd ==
    /\ pc = "compare"
    /\ self_ \in OrdHands
    /\ other \in OrdHands
    /\ ret = Unused
    /\ HandIdle
    /\ RunIdle

\* Ord::cmp
OrdCmp ==
    /\ pc = "compare"
    /\ pc' = "cmp"
    /\ ret' = cmp(self_, other)
    /\ UNCHANGED <<self_, other, hand_vars, run_vars>>

\* PartialOrd::partial_cmp
PartialCmp ==
    /\ pc = "compare"
    /\ pc' = "partial_cmp"
    /\ ret' = partial_cmp(self_, other)
    /\ UNCHANGED <<self_, other, hand_vars, run_vars>>

\* PartialEq::eq
PartialEqEq ==
    /\ pc = "compare"
    /\ pc' = "eq"
    /\ ret' = eq(self_, other)
    /\ UNCHANGED <<self_, other, hand_vars, run_vars>>

\* [self, other].iter().max()
IterMax ==
    /\ pc = "compare"
    /\ pc' = "max"
    /\ ret' = max(<<self_, other>>)
    /\ UNCHANGED <<self_, other, hand_vars, run_vars>>

\* vec![self, other].sort_unstable(): ascending by PartialOrd::lt, and two
\* elements neither of which is lt the other are left in either order
SortUnstable ==
    /\ pc = "compare"
    /\ pc' = "sort_unstable"
    /\ ret' \in {s \in {<<self_, other>>, <<other, self_>>} : ~lt(s[2], s[1])}
    /\ UNCHANGED <<self_, other, hand_vars, run_vars>>

NextOrd == OrdCmp \/ PartialCmp \/ PartialEqEq \/ IterMax \/ SortUnstable

SpecOrd == InitOrd /\ [][NextOrd]_vars

(***************************************************************************)
(* The ordering as stated: category first, then the payload tuples         *)
(* lexicographically, ranks by number                                      *)
(***************************************************************************)
StatedCategoryOrder ==
    <<"HighCard", "Pair", "TwoPair", "ThreeOfAKind", "Straight", "Flush",
      "FullHouse", "FourOfAKind", "StraightFlush">>

Strength(cat) == CHOOSE k \in 1..Len(StatedCategoryOrder) : StatedCategoryOrder[k] = cat

\* p precedes q lexicographically: the first slot where they differ is smaller in p
LexLess(p, q) ==
    \E k \in 1..Len(p) : p[k] < q[k] /\ \A j \in 1..(k - 1) : p[j] = q[j]

LexOrder(p, q) ==
    IF LexLess(p, q) THEN "Less" ELSE IF LexLess(q, p) THEN "Greater" ELSE "Equal"

StatedOrder(a, b) ==
    IF Strength(a.cat) < Strength(b.cat) THEN "Less"
    ELSE IF Strength(a.cat) > Strength(b.cat) THEN "Greater"
    ELSE LexOrder(a.p, b.p)

Reversed(o) == IF o = "Less" THEN "Greater" ELSE IF o = "Greater" THEN "Less" ELSE "Equal"

\* the first slot at which two payloads of one category differ, 0 if none
FirstDiff(p, q) ==
    IF p = q THEN 0 ELSE CHOOSE k \in 1..Len(p) : p[k] # q[k] /\ \A j \in 1..(k - 1) : p[j] = q[j]

C2_PartialCmpIsLexicographic ==
    (pc = "partial_cmp" /\ self_.cat = other.cat) =>
        /\ ret = LexOrder(self_.p, other.p)
        /\ (ret = "Equal") <=> eq(self_, other)

(***************************************************************************)
(* SpecHand: cards_to_hand on five distinct cards                          *)
(***************************************************************************)
HandPoolSize == 22

PermPoolSize == 10

\* every ordering of every five of the first n pool cards
PoolOrderings(n) ==
    {[k \in 1..5 |-> c[f[k]]] : c \in PoolArrays(n, 5), f \in Perms5}

InitHand ==
    /\ pc = "cards_to_hand"
    /\ cards \in PoolArrays(HandPoolSize, 5)
    /\ sorted = Unused
    /\ hand = Unused
    /\ combinations = Unused
    /\ OrdIdle
    /\ RunIdle

\* cards.sort_unstable_by_key(|card| card.rank); cards.reverse();
SortReverse ==
    /\ pc = "cards_to_hand"
    /\ pc' = "sorted"
    /\ sorted' \in sort_reverse_outcomes(cards)
    /\ UNCHANGED <<cards, hand, combinations, ord_vars, run_vars>>

\* the chain of tests and the return
Classify ==
    /\ pc = "sorted"
    /\ pc' = "classified"
    /\ hand' = classify_sorted(sorted)
    /\ UNCHANGED <<cards, sorted, combinations, ord_vars, run_vars>>

NextHand == SortReverse \/ Classify

SpecHand == InitHand /\ [][NextHand]_vars

(***************************************************************************)
(* SpecPerm: cards_to_hand on every ordering of five distinct cards        *)
(***************************************************************************)
InitPerm ==
    /\ pc = "cards_to_hand"
    /\ cards \in PoolOrderings(PermPoolSize)
    /\ sorted = Unused
    /\ hand = Unused
    /\ combinations = Unused
    /\ OrdIdle
    /\ RunIdle

SpecPerm == InitPerm /\ [][NextHand]_vars

(***************************************************************************)
(* The hand of five cards as the data-model table states it, from the      *)
(* rank multiplicities, the suits and the numeric ranks                    *)
(***************************************************************************)
RanksOf(cs) == {cs[k].rank : k \in 1..Len(cs)}

Count(cs, r) == Cardinality({k \in 1..Len(cs) : cs[k].rank = r})

RanksWithCount(cs, n) == {r \in RanksOf(cs) : Count(cs, r) = n}

MaxOf(S) == CHOOSE x \in S : \A y \in S : x >= y

MinOf(S) == CHOOSE x \in S : \A y \in S : x <= y

\* the ranks of a set, highest first
RECURSIVE Descending(_)
Descending(S) == IF S = {} THEN <<>> ELSE <<MaxOf(S)>> \o Descending(S \ {MaxOf(S)})

IsFlushStated(cs) == Cardinality({cs[k].suit : k \in 1..Len(cs)}) = 1

\* five consecutive numeric ranks, Ace counting as 14 only
IsStraightStated(cs) ==
    Cardinality(RanksOf(cs)) = 5 /\ MaxOf(RanksOf(cs)) - MinOf(RanksOf(cs)) = 4

IsWheel(cs) == RanksOf(cs) = {Ace, Two, Three, Four, Five}

StatedHand(cs) ==
    LET all == RanksOf(cs)
        one == RanksWithCount(cs, 1)
        two == RanksWithCount(cs, 2)
        three == RanksWithCount(cs, 3)
        four == RanksWithCount(cs, 4)
    IN
    IF IsStraightStated(cs) /\ IsFlushStated(cs)
        THEN PokerHandRank("StraightFlush", <<MaxOf(all)>>)
    ELSE IF four # {}
        THEN PokerHandRank("FourOfAKind", Descending(four) \o Descending(one))
    ELSE IF three # {} /\ two # {}
        THEN PokerHandRank("FullHouse", Descending(three) \o Descending(two))
    ELSE IF IsFlushStated(cs)
        THEN PokerHandRank("Flush", Descending(all))
    ELSE IF IsStraightStated(cs)
        THEN PokerHandRank("Straight", <<MaxOf(all)>>)
    ELSE IF three # {}
        THEN PokerHandRank("ThreeOfAKind", Descending(three) \o Descending(one))
    ELSE IF Cardinality(two) = 2
        THEN PokerHandRank("TwoPair", Descending(two) \o Descending(one))
    ELSE IF Cardinality(two) = 1
        THEN PokerHandRank("Pair", Descending(two) \o Descending(one))
    ELSE PokerHandRank("HighCard", Descending(all))

\* C3: for five distinct cards other than a wheel, cards_to_hand returns the
\* strongest category the cards satisfy with the payload of the data-model
\* table: grouped ranks first, then the kickers in descending order.
C3_ClassifiesAsStated ==
    (pc = "classified" /\ ~IsWheel(cards)) => hand = StatedHand(cards)

\* C3 witness: two pair whose kicker outranks both pairs, so the grouped ranks
\* come before a higher kicker
C3_Witness ==
    /\ pc = "classified"
    /\ hand.cat = "TwoPair"
    /\ hand.p[3] > hand.p[1]
    /\ hand.p[1] > hand.p[2]

\* the same cards in the order in which the pool lists them
PoolIndex(c) == CHOOSE k \in 1..Len(Pool) : Pool[k] = c

RECURSIVE ByPoolIndex(_)
ByPoolIndex(S) ==
    IF S = {} THEN <<>>
    ELSE LET c == CHOOSE x \in S : \A y \in S : PoolIndex(x) <= PoolIndex(y)
         IN  <<c>> \o ByPoolIndex(S \ {c})

InPoolOrder(cs) == ByPoolIndex({cs[k] : k \in 1..Len(cs)})

\* C8: cards_to_hand is order-invariant: for every ordering of five cards, and
\* whatever array the unstable sort leaves, the hand returned equals the hand
\* of the same cards in pool order, so all orderings of the cards agree.
C8_OrderInvariant ==
    pc = "classified" =>
        /\ hand = cards_to_hand(InPoolOrder(cards))
        /\ hand = cards_to_hand(cards)

\* C8 witness: a hand with a pair, given in an order that is not sorted by
\* rank, where the sort left the two cards of the pair in the reverse of
\* their input order
C8_Witness ==
    /\ pc = "classified"
    /\ hand.cat = "Pair"
    /\ \E k \in 1..4 : cards[k].rank < cards[k + 1].rank
    /\ \E x, y \in 1..5, k \in 1..4 :
          /\ x < y
          /\ cards[x].rank = cards[y].rank
          /\ sorted[k] = cards[y]
          /\ sorted[k + 1] = cards[x]

\* C9: the wheel is no straight: five cards of ranks A,2,3,4,5 sort to
\* A,5,4,3,2 and are returned as Flush(A,5,4,3,2) when they share a suit and
\* as HighCard(A,5,4,3,2) otherwise.
C9_WheelIsNotAStraight ==
    (pc \in {"sorted", "classified"} /\ IsWheel(cards)) =>
        /\ [k \in 1..5 |-> sorted[k].rank] = <<Ace, Five, Four, Three, Two>>
        /\ pc = "classified" =>
              hand = PokerHandRank(IF IsFlushStated(cards) THEN "Flush" ELSE "HighCard",
                                   <<Ace, Five, Four, Three, Two>>)

\* C9 witness: a wheel of one suit classified as a flush
C9_Witness ==
    /\ pc = "classified"
    /\ IsWheel(cards)
    /\ IsFlushStated(cards)
    /\ hand.cat = "Flush"

(***************************************************************************)
(* SpecBest: get_combinations and get_best_hand on seven distinct cards    *)
(***************************************************************************)
BestPoolSize == 13

InitBest ==
    /\ pc = "seven"
    /\ cards \in PoolArrays(BestPoolSize, 7)
    /\ sorted = Unused
    /\ hand = Unused
    /\ combinations = Unused
    /\ OrdIdle
    /\ RunIdle

\* get_combinations(cards)
GetCombinations ==
    /\ pc = "seven"
    /\ pc' = "get_combinations"
    /\ combinations' = get_combinations(cards)
    /\ UNCHANGED <<cards, sorted, hand, ord_vars, run_vars>>

\* get_best_hand(cards)
GetBestHand ==
    /\ pc = "seven"
    /\ pc' = "get_best_hand"
    /\ combinations' = get_combinations(cards)
    /\ hand' = get_best_hand(cards)
    /\ UNCHANGED <<cards, sorted, ord_vars, run_vars>>

NextBest == GetCombinations \/ GetBestHand

SpecBest == InitBest /\ [][NextBest]_vars

CardSet(cs) == {cs[k] : k \in 1..Len(cs)}

FiveSubsets(S) == {T \in SUBSET S : Cardinality(T) = 5}

\* C7: get_combinations on 7 distinct cards returns exactly 21 arrays, each of
\* 5 pairwise distinct cards of the input, no two holding the same set of
\* cards, and every 5-card subset of the input among them.
C7_AllFiveSubsetsOnce ==
    pc = "get_combinations" =>
        /\ Len(combinations) = 21
        /\ \A n \in 1..Len(combinations) :
              /\ Len(combinations[n]) = 5
              /\ Cardinality(CardSet(combinations[n])) = 5
              /\ CardSet(combinations[n]) \subseteq CardSet(cards)
        /\ \A n, m \in 1..Len(combinations) :
              n # m => CardSet(combinations[n]) # CardSet(combinations[m])
        /\ \A T \in FiveSubsets(CardSet(cards)) :
              \E n \in 1..Len(combinations) : CardSet(combinations[n]) = T

\* C7 witness: the call returned, and the last array pushed is the last five cards
C7_Witness ==
    /\ pc = "get_combinations"
    /\ combinations[Len(combinations)] = SubSeq(cards, 3, 7)
    /\ combinations[1] = SubSeq(cards, 1, 5)

\* the 21 increasing choices of five positions out of seven
SevenChooseFive == IncSeqs(7, 5)

\* the five-card arrays of a seven-card array, by increasing positions
FiveOfSeven(cs) == {[k \in 1..5 |-> cs[t[k]]] : t \in SevenChooseFive}

\* C4: get_best_hand returns the hand of some 5-card subset of the input, and
\* no 5-card subset of the input has a greater hand under the stated ordering.
C4_BestOfAllSubsets ==
    pc = "get_best_hand" =>
        /\ Cardinality(FiveOfSeven(cards)) = 21
        /\ \E c \in FiveOfSeven(cards) : cards_to_hand(c) = hand
        /\ \A c \in FiveOfSeven(cards) : StatedOrder(hand, cards_to_hand(c)) # "Less"

\* C4 witness: the best hand is neither the hand of the first nor of the last
\* combination, and the seven cards hold hands of at least three categories
C4_Witness ==
    /\ pc = "get_best_hand"
    /\ hand # cards_to_hand(combinations[1])
    /\ hand # cards_to_hand(combinations[Len(combinations)])
    /\ Cardinality({cards_to_hand(c).cat : c \in FiveOfSeven(cards)}) >= 3

(***************************************************************************)
(* Spec: run_out, the trial loop of main.rs                                *)
(***************************************************************************)
MaxPlayers == 3

MaxDeck == 2

MaxIterations == 7

\* hole cards tried: contiguous runs of these pairs
HoleOrder ==
    <<<<new(Ace, Hearts), new(Three, Clubs)>>,
      <<new(Ace, Diamonds), new(Four, Clubs)>>,
      <<new(Seven, Hearts), new(Seven, Diamonds)>>,
      <<new(Nine, Hearts), new(Nine, Diamonds)>>>>

\* boards tried: prefixes of these
RunBoards ==
    <<<<new(Ten, Spades), new(Jack, Spades), new(Queen, Spades), new(King, Spades),
        new(Ace, Spades)>>,
      <<new(Ten, Spades), new(Jack, Spades), new(Queen, Spades), new(King, Spades),
        new(Two, Diamonds)>>>>

\* decks tried: prefixes of this, less the dead cards
DeckOrder ==
    <<new(Ace, Spades), new(Two, Diamonds), new(Nine, Spades), new(Eight, Clubs)>>

\* fn deck_without_cards: for card in cards { deck.retain(|c| *c != card) }
\* a plausible slip: only the first occurrence of each card is removed
RECURSIVE remove_first(_, _)
remove_first(d, c) ==
    IF d = <<>> THEN <<>>
    ELSE IF Head(d) = c THEN Tail(d)
    ELSE <<Head(d)>> \o remove_first(Tail(d), c)

RECURSIVE remove_first_each(_, _, _)
remove_first_each(d, cs, k) ==
    IF k > Len(cs) THEN d
    ELSE remove_first_each(remove_first(d, cs[k]), cs, k + 1)

RECURSIVE retain_each(_, _, _)
retain_each(d, cs, k) ==
    IF k > Len(cs) THEN d
    ELSE retain_each(SelectSeq(d, LAMBDA c : c # cs[k]), cs, k + 1)

deck_without_cards(d, cs) == retain_each(d, cs, 1)

\* run_calculation: the hole cards of every hand, then the board
RECURSIVE flat_hands(_, _)
flat_hands(hs, k) ==
    IF k > Len(hs) THEN <<>> ELSE <<hs[k][1], hs[k][2]>> \o flat_hands(hs, k + 1)

dead_cards(hs, board) == flat_hands(hs, 1) \o board

\* fn shuffle_deck: any permutation of the deck
shuffle_deck(d) == {[k \in 1..Len(d) |-> d[f[k]]] : f \in Perms(Len(d))}

\* for i in &idx { wins[*i] += 1.0 / idx.len() as f32; }
credit(w, winners) ==
    [p \in 1..Len(w) |->
        IF \E k \in 1..Len(winners) : winners[k] = p - 1
        THEN F32Add(w[p], F32Div(F32FromInt(1), F32FromInt(Len(winners))))
        ELSE w[p]]

\* wins.iter().map(|c| *c as f32 / iterations as f32).collect()
fractions(w, n) == [p \in 1..Len(w) |-> F32Div(w[p], F32FromInt(n))]

Init ==
    /\ pc = "loop"
    /\ \E n \in 1..MaxPlayers, s \in 1..Len(HoleOrder), base \in 1..Len(RunBoards),
          b \in 0..5, d \in 0..MaxDeck :
          /\ s + n - 1 <= Len(HoleOrder)
          /\ d <= Len(DeckOrder)
          /\ hands = SubSeq(HoleOrder, s, s + n - 1)
          /\ community = SubSeq(RunBoards[base], 1, b)
          /\ deck = deck_without_cards(SubSeq(DeckOrder, 1, d),
                                       dead_cards(hands, community))
    /\ iterations \in 0..MaxIterations
    /\ i = 0
    /\ wins = [p \in 1..Len(hands) |-> F32Zero]
    /\ wdeck = Unused
    /\ wcommunity = Unused
    /\ draws = 0
    /\ idx = Unused
    /\ best_hands = Unused
    /\ result = Unused
    /\ OrdIdle
    /\ HandIdle

\* a plausible slip: the deck is not cloned, a trial shuffles what the last left
StartTrialSharedDeck ==
    /\ pc = "loop"
    /\ i < iterations
    /\ pc' = "draw"
    /\ wdeck' \in shuffle_deck(IF i = 0 THEN deck ELSE wdeck)
    /\ wcommunity' = community
    /\ draws' = 0
    /\ UNCHANGED <<deck, hands, community, iterations, i, wins, idx, best_hands,
                   result, ord_vars, hand_vars>>

\* the head of a trial: clone deck, hands and community, shuffle the clone
StartTrial ==
    /\ pc = "loop"
    /\ i < iterations
    /\ pc' = "draw"
    /\ wdeck' \in shuffle_deck(deck)
    /\ wcommunity' = community
    /\ draws' = 0
    /\ UNCHANGED <<deck, hands, community, iterations, i, wins, idx, best_hands,
                   result, ord_vars, hand_vars>>

\* while community.len() < 5 { community.push(deck.pop().unwrap()); }
Draw ==
    /\ pc = "draw"
    /\ Len(wcommunity) < 5
    /\ wdeck # <<>>
    /\ wcommunity' = Append(wcommunity, wdeck[Len(wdeck)])
    /\ wdeck' = SubSeq(wdeck, 1, Len(wdeck) - 1)
    /\ draws' = draws + 1
    /\ UNCHANGED <<pc, deck, hands, community, iterations, i, wins, idx, best_hands,
                   result, ord_vars, hand_vars>>

\* a plausible slip: an empty deck ends the trial and the loop goes on
DrawSkipTrial ==
    /\ pc = "draw"
    /\ Len(wcommunity) < 5
    /\ wdeck = <<>>
    /\ pc' = "loop"
    /\ i' = i + 1
    /\ UNCHANGED <<deck, hands, community, iterations, wdeck, wcommunity, draws,
                   wins, idx, best_hands, result, ord_vars, hand_vars>>

\* deck.pop() is None: unwrap panics
DrawPanic ==
    /\ pc = "draw"
    /\ Len(wcommunity) < 5
    /\ wdeck = <<>>
    /\ pc' = "panic"
    /\ UNCHANGED <<deck, hands, community, iterations, i, wdeck, wcommunity, draws,
                   wins, idx, best_hands, result, ord_vars, hand_vars>>

\* determine_winner on the completed board, then the credit of the winners
Resolve ==
    /\ pc = "draw"
    /\ Len(wcommunity) = 5
    /\ \E dw \in {determine_winner(hands, wcommunity)} :
           /\ idx' = dw[1]
           /\ best_hands' = dw[2]
           /\ wins' = credit(wins, dw[1])
    /\ i' = i + 1
    /\ pc' = "loop"
    /\ UNCHANGED <<deck, hands, community, iterations, wdeck, wcommunity, draws,
                   result, ord_vars, hand_vars>>

\* after the loop: the fractions are returned
Finish ==
    /\ pc = "loop"
    /\ i = iterations
    /\ result' = fractions(wins, iterations)
    /\ pc' = "done"
    /\ UNCHANGED <<deck, hands, community, iterations, i, wdeck, wcommunity, draws,
                   wins, idx, best_hands, ord_vars, hand_vars>>

Next == StartTrial \/ Draw \/ DrawPanic \/ Resolve \/ Finish

Spec == Init /\ [][Next]_vars

(***************************************************************************)
(* Claims about determine_winner and run_out                               *)
(***************************************************************************)
Players == 1..Len(hands)

\* the greatest of the players' best hands under the stated ordering
StatedMaximum(bh) ==
    CHOOSE h \in {bh[q] : q \in 1..Len(bh)} :
        \A q \in 1..Len(bh) : StatedOrder(h, bh[q]) # "Less"

IsWinner(winners, p) == \E k \in 1..Len(winners) : winners[k] = p - 1

\* C5: determine_winner returns (a) a non-empty ascending list of indices that
\* holds i exactly when player i's best hand has the category and payload of
\* the maximum of all best hands, and (b) all N best hands in input order,
\* entry i being the best hand of player i's two cards plus the board: the
\* hand of one of its 21 five-card subsets, none of which has a greater hand.
C5_WinnersAreExactlyTheMaxima ==
    (pc = "loop" /\ i > 0) =>
        /\ Len(idx) >= 1
        /\ \A k \in 1..Len(idx) : idx[k] \in 0..(Len(hands) - 1)
        /\ \A k \in 1..(Len(idx) - 1) : idx[k] < idx[k + 1]
        /\ Len(best_hands) = Len(hands)
        /\ \A m \in {StatedMaximum(best_hands)}, p \in Players :
              /\ IsWinner(idx, p) <=>
                    (best_hands[p].cat = m.cat /\ best_hands[p].p = m.p)
              /\ \A sub \in {{cards_to_hand(c) : c \in FiveOfSeven(seven(hands[p], wcommunity))}} :
                    /\ best_hands[p] \in sub
                    /\ \A h \in sub : StatedOrder(best_hands[p], h) # "Less"

\* C5 witness: of three players the first two, holding different cards, have
\* equal best hands made with a hole card and are both returned; the third loses
C5_Witness ==
    /\ pc = "loop"
    /\ i > 0
    /\ Len(hands) = 3
    /\ idx = <<0, 1>>
    /\ best_hands[1] = best_hands[2]
    /\ best_hands[3] # best_hands[1]
    /\ \A c \in FiveOfSeven(seven(hands[1], wcommunity)) :
          cards_to_hand(c) = best_hands[1] => \E k \in 1..5 : c[k] = hands[1][1]

\* the exact value of an f32 in units of 2^-u, for values that are whole units
Units(x, u) == IF x.m = 0 THEN 0 ELSE x.m * Pow2(x.e + u)

RECURSIVE SumUnits(_, _, _)
SumUnits(xs, u, k) == IF k > Len(xs) THEN 0 ELSE Units(xs[k], u) + SumUnits(xs, u, k + 1)

\* units fine enough for every accumulator value (a credit of 1/3 is a
\* multiple of 2^-25) and for every fraction returned within the bounds of Spec
WinUnits == SignificandBits + 1

FractionUnits == SignificandBits + 4

F32One == F32FromInt(1)

\* C6 as stated: after k completed trials the per-player credits sum to
\* exactly k, and after all T >= 1 trials each fraction lies in [0,1] and the
\* fractions sum to 1
C6_CreditsSumExactly ==
    /\ pc = "loop" => SumUnits(wins, WinUnits, 1) = i * Pow2(WinUnits)
    /\ (pc = "done" /\ iterations >= 1) =>
        /\ \A p \in Players : F32Le(F32Zero, result[p]) /\ F32Le(result[p], F32One)
        /\ SumUnits(result, FractionUnits, 1) = Pow2(FractionUnits)

\* what run_out does keep: every accumulator is within [0, i], so every
\* fraction is within [0, 1], and a trial changes the winners' accumulators only
C6_Kept ==
    /\ pc \in {"loop", "draw"} => \A p \in Players : F32Le(wins[p], F32FromInt(i))
    /\ (pc = "done" /\ iterations >= 1) => \A p \in Players : F32Le(result[p], F32One)

\* C10 as stated: with five board cards given no trial draws a card, every
\* trial has the winners of that board, and each winner's fraction is 1/w
\* (the f32 nearest to it) and every other fraction 0, for every T >= 1
C10_FullBoardFractions ==
    Len(community) = 5 =>
        /\ draws = 0
        /\ pc = "draw" => Len(wdeck) = Len(deck)
        /\ (pc = "loop" /\ i > 0) =>
              \A dw \in {determine_winner(hands, community)} : idx = dw[1]
        /\ (pc = "done" /\ iterations >= 1) =>
              \A p \in Players :
                  result[p] = IF IsWinner(idx, p)
                              THEN F32Div(F32One, F32FromInt(Len(idx)))
                              ELSE F32Zero

\* what run_out does keep of C10: no draw, the same winners in every trial
C10_Kept ==
    Len(community) = 5 =>
        /\ draws = 0
        /\ pc = "draw" => Len(wdeck) = Len(deck)
        /\ (pc = "loop" /\ i > 0) =>
              \A dw \in {determine_winner(hands, community)} : idx = dw[1]

\* run_out runs as one sequential call: a trial that can start starts, and
\* a draw that can be made, or that panics, is made
FairSpec == Spec /\ WF_vars(StartTrial) /\ WF_vars(Draw) /\ WF_vars(DrawPanic)

\* the deck cannot complete the board
ShortDeck == Len(deck) < 5 - Len(community)

\* what C12 says of a run: no trial completes, nothing is returned, the run
\* stops where a draw finds the working deck empty, having popped every card
\* of the deck, and nothing follows the panic
NoTrialCompletes ==
    /\ i = 0
    /\ pc # "done"
    /\ result = Unused
    /\ \A p \in Players : wins[p] = F32Zero
    /\ pc = "panic" =>
          /\ wdeck = <<>>
          /\ Len(wcommunity) < 5
          /\ draws = Len(deck)
          /\ Len(wcommunity) = Len(community) + Len(deck)

\* C12 as stated: whenever the deck holds fewer than 5 minus (known board
\* cards) cards, run_out panics in the first trial at the draw that finds the
\* deck empty; it does not retry and returns nothing
C12_ShortDeckAborts ==
    /\ [](ShortDeck => NoTrialCompletes)
    /\ [][pc # "panic"]_vars
    /\ (ShortDeck ~> pc = "panic")

\* C12: the same for every run of at least one trial (iterations >= 1); a
\* run of no trial draws nothing and returns
C12_ShortDeckAbortsFirstTrial ==
    /\ []((ShortDeck /\ iterations >= 1) => NoTrialCompletes)
    /\ [][pc # "panic"]_vars
    /\ ((ShortDeck /\ iterations >= 1) ~> pc = "panic")

\* C12 witness: a run of several trials, two board cards known and two cards
\* in the deck, has drawn both and panicked at the third draw
C12_Witness ==
    /\ pc = "panic"
    /\ iterations >= 2
    /\ Len(community) = 2
    /\ draws = 2
    /\ Len(wcommunity) = 4

\* the cards of a Vec<Card> with their multiplicities
CardCount(cs, c) == Cardinality({k \in 1..Len(cs) : cs[k] = c})

SameCards(a, b) ==
    /\ Len(a) = Len(b)
    /\ \A c \in CardSet(a) \cup CardSet(b) : CardCount(a, c) = CardCount(b, c)

\* the cards a trial has added to its board, in the order drawn
Drawn == SubSeq(wcommunity, Len(community) + 1, Len(wcommunity))

\* the state of a trial under way or just resolved
TrialOwnsItsCopies ==
    /\ (pc = "draw" /\ draws = 0) =>
          /\ SameCards(wdeck, deck)
          /\ wcommunity = community
    /\ (pc \in {"draw", "panic"} \/ (pc = "loop" /\ i > 0)) =>
          /\ Len(wcommunity) = Len(community) + draws
          /\ SubSeq(wcommunity, 1, Len(community)) = community
          /\ SameCards(wdeck \o Drawn, deck)
    /\ (pc = "loop" /\ i > 0) =>
          /\ draws = 5 - Len(community)
          /\ Len(wdeck) = Len(deck) - (5 - Len(community))
          /\ Len(wcommunity) = 5
          /\ Cardinality(CardSet(Drawn)) = draws
          /\ CardSet(Drawn) \subseteq CardSet(deck)
          /\ Cardinality(CardSet(flat_hands(hands, 1) \o wcommunity)) = 2 * Len(hands) + 5

\* C13: trials share no deck or board state: every trial starts from the
\* cards of the input deck and from the input board, whatever earlier trials
\* drew, and no step changes the inputs; a trial removes exactly 5 minus
\* (known board length) cards from its copy, and the completed board is the
\* known cards in order followed by that many distinct cards of the deck, so
\* the five board cards and all hole cards are mutually distinct.
C13_TrialsShareNoState ==
    /\ []TrialOwnsItsCopies
    /\ [][deck' = deck /\ community' = community /\ hands' = hands]_vars

\* C13 witness: a later trial starts with the whole deck, in another order
\* than given, after a trial that drew two cards and resolved
C13_Witness ==
    /\ pc = "draw"
    /\ i >= 1
    /\ draws = 0
    /\ Len(community) = 3
    /\ Len(wdeck) = 2
    /\ wdeck # deck
    /\ Len(best_hands) = Len(hands)

(***************************************************************************)
(* SpecDeck: new_deck, deck_without_cards and the deck run_calculation     *)
(* passes to run_out                                                       *)
(***************************************************************************)
\* fn new_deck: for each rank Two..Ace, for each suit Spades, Hearts, Clubs, Diamonds
new_deck == [n \in 1..52 |-> new(Two + ((n - 1) \div 4), Spades + ((n - 1) % 4))]

MaxDeckLen == 3

MaxDead == 3

\* cards a deck argument is made of (a Vec<Card> may repeat a card)
DeckCards == {Pool[1], Pool[2], Pool[3]}

\* cards a dead list is made of: those, and one card no deck argument holds
DeadCards == DeckCards \cup {Pool[4]}

SeqsUpTo(S, n) == UNION {[1..k -> S] : k \in 0..n}

\* hole cards tried by run_calculation: contiguous runs of these pairs, one pair twice
CalcHoles ==
    <<HoleOrder[1], HoleOrder[2], HoleOrder[1], HoleOrder[3]>>

\* boards tried by run_calculation: prefixes of these; the last repeats a card
\* and holds hole cards
CalcBoards ==
    RunBoards \o
    <<<<new(Ace, Hearts), new(Ten, Spades), new(Ten, Spades), new(Two, Diamonds),
        new(Three, Clubs)>>>>

DeckIdle ==
    /\ iterations = 0 /\ i = 0 /\ wdeck = Unused /\ wcommunity = Unused
    /\ draws = 0 /\ wins = Unused /\ idx = Unused /\ best_hands = Unused
    /\ result = Unused /\ sorted = Unused /\ hand = Unused
    /\ combinations = Unused /\ self_ = Unused /\ other = Unused

deck_idle_vars ==
    <<iterations, i, wdeck, wcommunity, draws, wins, idx, best_hands, result,
      sorted, hand, combinations, self_, other>>

InitDeck ==
    /\ \/ /\ pc = "call_deck_without_cards"
          /\ deck \in SeqsUpTo(DeckCards, MaxDeckLen)
          /\ cards \in SeqsUpTo(DeadCards, MaxDead)
          /\ hands = Unused
          /\ community = Unused
       \/ /\ pc = "call_run_calculation"
          /\ \E n \in 1..MaxPlayers, s \in 1..Len(CalcHoles), base \in 1..Len(CalcBoards),
                b \in 0..5 :
                /\ s + n - 1 <= Len(CalcHoles)
                /\ hands = SubSeq(CalcHoles, s, s + n - 1)
                /\ community = SubSeq(CalcBoards[base], 1, b)
          /\ deck = Unused
          /\ cards = Unused
    /\ ret = Unused
    /\ DeckIdle

\* deck_without_cards(deck, cards)
DeckWithoutCards ==
    /\ pc = "call_deck_without_cards"
    /\ pc' = "deck_without_cards"
    /\ ret' = deck_without_cards(deck, cards)
    /\ UNCHANGED <<deck, cards, hands, community, deck_idle_vars>>

\* run_calculation up to its call of run_out: cards is dead_cards, deck the
\* deck handed to run_out
RunCalculation ==
    /\ pc = "call_run_calculation"
    /\ pc' = "run_calculation"
    /\ cards' = dead_cards(hands, community)
    /\ deck' = deck_without_cards(new_deck, dead_cards(hands, community))
    /\ UNCHANGED <<ret, hands, community, deck_idle_vars>>

NextDeck == DeckWithoutCards \/ RunCalculation

SpecDeck == InitDeck /\ [][NextDeck]_vars

\* the elements of d outside S, in the order of d
RECURSIVE Without(_, _)
Without(d, S) ==
    IF d = <<>> THEN <<>>
    ELSE (IF Head(d) \in S THEN <<>> ELSE <<Head(d)>>) \o Without(Tail(d), S)

\* the 52 cards: every rank with every suit
AllCards == {new(r, su) : r \in Rank, su \in Suit}

\* C11: deck_without_cards returns the cards of deck that do not occur in
\* dead, in their original relative order, so listing a dead card again or
\* listing a card the deck does not hold changes nothing; and the deck
\* run_calculation hands to run_out is the 52-card deck less every hole card
\* and known board card, of size 52 minus the number of distinct dead cards.
C11_DeckWithoutDeadCards ==
    /\ pc = "deck_without_cards" =>
          /\ ret = Without(deck, CardSet(cards))
          /\ deck_without_cards(deck, cards \o cards) = ret
          /\ deck_without_cards(deck, cards \o <<Pool[4]>>) = ret
    /\ pc = "run_calculation" =>
          /\ CardSet(new_deck) = AllCards
          /\ Len(new_deck) = Cardinality(AllCards)
          /\ cards = flat_hands(hands, 1) \o community
          /\ deck = Without(new_deck, CardSet(cards))
          /\ CardSet(deck) = AllCards \ CardSet(cards)
          /\ Len(deck) = 52 - Cardinality(CardSet(cards))

\* C11 witness: the dead list names one card twice and then a card the deck
\* does not hold, and the deck keeps two different cards, in their order,
\* around the removed one
C11_Witness ==
    /\ pc = "deck_without_cards"
    /\ Len(deck) = 3
    /\ Len(ret) = 2
    /\ ret[1] # ret[2]
    /\ ret = <<deck[1], deck[3]>>
    /\ cards = <<deck[2], deck[2], Pool[4]>>

(***************************************************************************)
(* Claims about the cyclic successor in cards_to_hand (SpecHand)           *)
(***************************************************************************)
StraightCategories == {"Straight", "StraightFlush"}

\* C14: the cyclic successor never makes a wrap-around straight: cards_to_hand
\* returns Straight(r) or StraightFlush(r) only when the five ranks are the
\* numeric values r, r-1, r-2, r-3, r-4 with r from Six to Ace, so five cards
\* holding both an Ace and a Two are never a straight or a straight flush.
C14_NoWrapAroundStraight ==
    pc = "classified" =>
        /\ hand.cat \in StraightCategories =>
              /\ hand.p[1] \in Six..Ace
              /\ RanksOf(cards) = {value(hand.p[1]) - d : d \in 0..4}
              /\ [k \in 1..5 |-> value(sorted[k].rank)] =
                     [k \in 1..5 |-> value(hand.p[1]) - (k - 1)]
        /\ ({Ace, Two} \subseteq RanksOf(cards)) => hand.cat \notin StraightCategories

\* C14 witness: King, Ace, Two, Three, Four, which the cyclic successor chains
\* as 4-3-2-A-K, sorted Ace first and returned as a high card
C14_Witness ==
    /\ pc = "classified"
    /\ RanksOf(cards) = {King, Ace, Two, Three, Four}
    /\ next(Ace) = Two
    /\ sorted[1].rank = Ace
    /\ hand = PokerHandRank("HighCard", <<Ace, King, Four, Three, Two>>)

====
